---- MODULE Spec2Model ----
(***************************************************************************)
(* Model of the query router of src/core/brain.py: class Brain with its    *)
(* pattern registry (register_module), the router (process_query) and the  *)
(* two calls to the remote completion service (_route_to_llm and           *)
(* function_call_to_llm).                                                  *)
(*                                                                         *)
(* Text is a sequence of characters; an Optional value is <<>> for None    *)
(* and <<x>> for a value x; a message text is a sequence of fragments.     *)
(***************************************************************************)
EXTENDS Integers, Sequences, FiniteSets, TLC

VARIABLES
    command_registry,   \* dict: module name -> {'patterns', 'handler'}
    command_patterns,   \* list of (compiled pattern, handler)
    call,               \* the call in progress, or the last one made
    gw,                 \* the gateway call: idle, awaiting, success, failure
    sent,               \* the requests the current call has issued
    reply               \* what the remote service answered, once it has

vars == <<command_registry, command_patterns, call, gw, sent, reply>>

\* ---------------------------------------------------------------- bounds
MaxEntries == 2

\* ---------------------------------------------------------------- inputs
ModuleNames == {"lights", "music"}
Handlers == {"hA", "hB"}
\* the empty and the blank query, one that only "B" matches (at an offset),
\* and one that both "a" and "B" match
Queries == {<<>>, <<" ">>, <<"c", "b">>, <<"A", "b">>}
\* the patterns "a" and "B" are literals, "(" does not compile; the lists
\* are the empty one, one valid or invalid pattern, two valid patterns, and
\* a valid pattern followed by an invalid one
PatternLists ==
    { <<>>, << <<"a">> >>, << <<"B">> >>, << <<"(">> >>,
      << <<"a">>, <<"B">> >>, << <<"B">>, <<"(">> >> }
HandlerReturns == {"ok", "done"}
FunctionLists == {<<>>, <<"set_light_state">>}

None == <<>>
Some(x) == <<x>>

\* ------------------------------------------------- regular expressions
\* re.IGNORECASE: characters compare by their case-folded form
Fold(c) ==
    CASE c = "A" -> "a"
      [] c = "B" -> "b"
      [] OTHER -> c

\* re.compile raises re.error on an unterminated group
Compiles(pattern) == \A i \in 1..Len(pattern) : pattern[i] # "("

Compile(pattern) == [i \in 1..Len(pattern) |-> Fold(pattern[i])]

\* compiled.search(query): the pattern occurs at some offset of the query
Search(compiled, query) ==
    \E off \in 0..(Len(query) - Len(compiled)) :
        \A j \in 1..Len(compiled) : compiled[j] = Fold(query[off + j])

\* ------------------------------------------------------------ outcomes
NoOutcome == [type |-> "none"]

\* mutant: the command outcome leaves the handler out
CommandOutcomeNoHandler(handler, response) ==
    [type |-> "command", response |-> response]

CommandOutcome(handler, response) ==
    [type |-> "command", handler |-> handler, response |-> response]

\* mutant: the message is str(e) alone
ErrorOutcomeBare(prefix, e) == [type |-> "error", response |-> e]

\* f"{prefix}{str(e)}"
ErrorOutcome(prefix, e) == [type |-> "error", response |-> <<prefix>> \o e]

\* what the remote service can answer
Messages ==
    { [content |-> c, function_call |-> f] :
        c \in {None, Some("Paris")},
        f \in {None, Some([name |-> "set_light_state",
                           arguments |-> "{\"state\": \"off\"}"])} }
NoReply == [kind |-> "none"]
Failures == { [kind |-> "raise", error |-> e] : e \in {<<>>, <<"timeout">>} }
Responses ==
    { [kind |-> "response", choices |-> ch] :
        ch \in {<<>>} \cup { <<m>> : m \in Messages } }
ChatResponses == { r \in Responses :
                     \A i \in 1..Len(r.choices) :
                        r.choices[i].function_call = None }
Replies(request) ==
    Failures \cup (IF request.kind = "chat" THEN ChatResponses ELSE Responses)

IndexError == <<"list index out of range">>

\* _route_to_llm, from the answer of client.chat.completions.create on
RouteToLlmOutcome(r) ==
    IF r.kind = "raise"
    THEN ErrorOutcome("Error communicating with LLM: ", r.error)
    ELSE IF r.choices = <<>>
    THEN ErrorOutcome("Error communicating with LLM: ", IndexError)
    ELSE [type |-> "llm", response |-> r.choices[1].content]

\* mutant: a message with text is taken as a direct answer
FunctionCallOutcomeContentFirst(r) ==
    IF r.kind = "raise"
    THEN ErrorOutcome("Error with function calling: ", r.error)
    ELSE IF r.choices = <<>>
    THEN ErrorOutcome("Error with function calling: ", IndexError)
    ELSE IF r.choices[1].content # None
    THEN [type |-> "llm", response |-> r.choices[1].content]
    ELSE [type |-> "function_call",
          function |-> r.choices[1].function_call[1].name,
          arguments |-> r.choices[1].function_call[1].arguments]

\* function_call_to_llm, from the answer of the service on
FunctionCallOutcome(r) ==
    IF r.kind = "raise"
    THEN ErrorOutcome("Error with function calling: ", r.error)
    ELSE IF r.choices = <<>>
    THEN ErrorOutcome("Error with function calling: ", IndexError)
    ELSE IF r.choices[1].function_call # None
    THEN [type |-> "function_call",
          function |-> r.choices[1].function_call[1].name,
          arguments |-> r.choices[1].function_call[1].arguments]
    ELSE [type |-> "llm", response |-> r.choices[1].content]

\* -------------------------------------------------------------- state
NoCall == [op |-> "none", args |-> <<>>, outcome |-> NoOutcome,
           invoked |-> <<>>, raised |-> "none"]

Init ==
    /\ command_registry = <<>>
    /\ command_patterns = <<>>
    /\ call = NoCall
    /\ gw = "idle"
    /\ sent = <<>>
    /\ reply = NoReply

\* no call is in progress: the chain is synchronous and single-threaded
Ready == gw # "awaiting"

\* ------------------------------------------------------ register_module
\* the index of the first pattern re.compile rejects, Len + 1 if none
FirstInvalid(patterns) ==
    IF \A i \in 1..Len(patterns) : Compiles(patterns[i])
    THEN Len(patterns) + 1
    ELSE CHOOSE i \in 1..Len(patterns) :
            /\ ~Compiles(patterns[i])
            /\ \A j \in 1..(i - 1) : Compiles(patterns[j])

\* the entries the loop appends before it ends or raises
Compiled(patterns, handler) ==
    [i \in 1..(FirstInvalid(patterns) - 1) |-> <<Compile(patterns[i]), handler>>]

\* mutant: the new entries go to the front of the list
PrependedPatterns(module_name, patterns, handler) ==
    Compiled(patterns, handler) \o command_patterns

\* mutant: a re-registration first drops the entries of the module's old handler
ReplacedPatterns(module_name, patterns, handler) ==
    (IF module_name \in DOMAIN command_registry
     THEN SelectSeq(command_patterns,
                    LAMBDA e : e[2] # command_registry[module_name].handler)
     ELSE command_patterns) \o Compiled(patterns, handler)

\* command_patterns after the loop: append only, whatever the module name
NewCommandPatterns(module_name, patterns, handler) ==
    command_patterns \o Compiled(patterns, handler)

RegisterModule(module_name, patterns, handler) ==
    /\ Ready
    /\ Len(command_patterns) + Len(patterns) <= MaxEntries
    /\ command_registry' =
          (module_name :> [patterns |-> patterns, handler |-> handler])
              @@ command_registry
    /\ command_patterns' = NewCommandPatterns(module_name, patterns, handler)
    /\ call' = [op |-> "register_module",
                args |-> [module_name |-> module_name, patterns |-> patterns,
                          handler |-> handler],
                outcome |-> NoOutcome,
                invoked |-> <<>>,
                raised |-> IF FirstInvalid(patterns) <= Len(patterns)
                           THEN "re.error" ELSE "none"]
    /\ gw' = "idle"
    /\ sent' = <<>>
    /\ reply' = NoReply

\* -------------------------------------------------------- process_query
Matching(entries, query) ==
    {i \in 1..Len(entries) : Search(entries[i][1], query)}

Max(S) == CHOOSE x \in S : \A y \in S : y <= x
Min(S) == CHOOSE x \in S : \A y \in S : x <= y

\* mutant: the scan keeps going and the last matching entry wins
LastMatch(entries, query) ==
    IF Matching(entries, query) = {} THEN 0 ELSE Max(Matching(entries, query))

\* the loop over command_patterns: the first entry whose search succeeds, or 0
FirstMatch(entries, query) ==
    IF Matching(entries, query) = {} THEN 0 ELSE Min(Matching(entries, query))

\* the gateway issues its one request and waits for the answer
Issue(op, args, invoked, request) ==
    /\ call' = [op |-> op, args |-> args, outcome |-> NoOutcome,
                invoked |-> invoked, raised |-> "none"]
    /\ gw' = "awaiting"
    /\ sent' = <<request>>
    /\ reply' = NoReply

ChatRequest(query) == [kind |-> "chat", query |-> query]

RouteToLlm(query) ==
    Issue("process_query", [query |-> query], <<>>, ChatRequest(query))

\* the call returns, or raises, without a gateway call
Finish(query, outcome, invoked, raised) ==
    /\ call' = [op |-> "process_query", args |-> [query |-> query],
                outcome |-> outcome, invoked |-> invoked, raised |-> raised]
    /\ gw' = "idle"
    /\ sent' = <<>>
    /\ reply' = NoReply

\* mutant: a raising handler is caught and the query falls back to the LLM
RunHandlerContained(query, handler) ==
    \/ \E r \in HandlerReturns :
          Finish(query, CommandOutcome(handler, r),
                 <<[handler |-> handler, returned |-> Some(r)]>>, "none")
    \/ Issue("process_query", [query |-> query],
             <<[handler |-> handler, returned |-> None]>>, ChatRequest(query))

\* handler(query) returns a value or raises; the router catches nothing
RunHandler(query, handler) ==
    \/ \E r \in HandlerReturns :
          Finish(query, CommandOutcome(handler, r),
                 <<[handler |-> handler, returned |-> Some(r)]>>, "none")
    \/ Finish(query, NoOutcome,
              <<[handler |-> handler, returned |-> None]>>, "handler")

IsBlank(query) == \A i \in 1..Len(query) : query[i] = " "

\* mutant: an empty or blank query is answered without the gateway
ProcessQueryDropBlank(query) ==
    /\ Ready
    /\ UNCHANGED <<command_registry, command_patterns>>
    /\ IF FirstMatch(command_patterns, query) # 0
       THEN RunHandler(query,
                command_patterns[FirstMatch(command_patterns, query)][2])
       ELSE IF IsBlank(query)
       THEN Finish(query, [type |-> "llm", response |-> None], <<>>, "none")
       ELSE RouteToLlm(query)

ProcessQuery(query) ==
    /\ Ready
    /\ UNCHANGED <<command_registry, command_patterns>>
    /\ IF FirstMatch(command_patterns, query) # 0
       THEN RunHandler(query,
                command_patterns[FirstMatch(command_patterns, query)][2])
       ELSE RouteToLlm(query)

\* ------------------------------------------------- function_call_to_llm
FunctionCallToLlm(query, available_functions) ==
    /\ Ready
    /\ UNCHANGED <<command_registry, command_patterns>>
    /\ Issue("function_call_to_llm",
             [query |-> query, available_functions |-> available_functions],
             <<>>,
             [kind |-> "functions", query |-> query,
              functions |-> available_functions])

\* ------------------------------------------------------ the remote hop
\* client.chat.completions.create returns a response or raises
ServiceAnswers ==
    /\ gw = "awaiting"
    /\ reply = NoReply
    /\ \E r \in Replies(sent[Len(sent)]) : reply' = r
    /\ UNCHANGED <<command_registry, command_patterns, call, gw, sent>>

Normalised(op, r) ==
    IF op = "process_query" THEN RouteToLlmOutcome(r) ELSE FunctionCallOutcome(r)

\* mutant: a failed request is issued once more
GatewayReturnRetrying ==
    /\ gw = "awaiting"
    /\ reply # NoReply
    /\ UNCHANGED <<command_registry, command_patterns>>
    /\ IF reply.kind = "raise" /\ Len(sent) = 1
       THEN /\ sent' = Append(sent, sent[1])
            /\ reply' = NoReply
            /\ UNCHANGED <<call, gw>>
       ELSE /\ call' = [call EXCEPT !.outcome = Normalised(call.op, reply)]
            /\ gw' = IF Normalised(call.op, reply).type = "error"
                     THEN "failure" ELSE "success"
            /\ UNCHANGED <<sent, reply>>

\* the try body after the request, or the except clause: the call returns
GatewayReturn ==
    /\ gw = "awaiting"
    /\ reply # NoReply
    /\ call' = [call EXCEPT !.outcome = Normalised(call.op, reply)]
    /\ gw' = IF Normalised(call.op, reply).type = "error"
             THEN "failure" ELSE "success"
    /\ UNCHANGED <<command_registry, command_patterns, sent, reply>>

\* ------------------------------------------------------- specification
Next ==
    \/ \E n \in ModuleNames, p \in PatternLists, h \in Handlers :
          RegisterModule(n, p, h)
    \/ \E q \in Queries : ProcessQuery(q)
    \/ \E q \in Queries, f \in FunctionLists : FunctionCallToLlm(q, f)
    \/ ServiceAnswers
    \/ GatewayReturn

Spec == Init /\ [][Next]_vars

\* the call chain is sequential: once the service has answered, the code
\* after the request runs to its return
LiveSpec == Spec /\ WF_vars(GatewayReturn)

\* --------------------------------------------------------------- claims
\* the entries of command_patterns the query of the last call matches
Hits == Matching(command_patterns, call.args.query)
FirstHit == command_patterns[Min(Hits)]
Returned == gw # "awaiting" /\ call.raised = "none"
Terminal == gw \in {"success", "failure"}
\* the remote call failed: it raised, or its response holds no choice
GatewayFailed ==
    \/ reply.kind = "raise"
    \/ reply.kind = "response" /\ reply.choices = <<>>
RegistryHandlers ==
    {command_registry[n].handler : n \in DOMAIN command_registry}

\* C1: a process_query whose query matches some entry invokes the handler of
\* the matching entry of smallest index, and no other handler; when that
\* handler returns, the call returns a 'command' outcome with that handler
\* and the value the handler returned.
C1_FirstMatchWins ==
    (call.op = "process_query" /\ Hits # {}) =>
        /\ Len(call.invoked) = 1
        /\ call.invoked[1].handler = FirstHit[2]
        /\ call.invoked[1].returned # None =>
              /\ Returned
              /\ call.outcome.type = "command"
              /\ call.outcome.handler = FirstHit[2]
              /\ call.outcome.response = call.invoked[1].returned[1]

\* two entries of different handlers match and the earlier one has answered
C1_Witness ==
    /\ call.op = "process_query"
    /\ \E i \in Hits, j \in Hits :
          i < j /\ command_patterns[i][2] # command_patterns[j][2]
    /\ call.outcome.type = "command"
    /\ call.outcome.handler = command_patterns[Min(Hits)][2]

\* C2: a process_query whose query matches no entry invokes no handler,
\* makes exactly one plain-completion request carrying the query and returns
\* what _route_to_llm makes of the answer; a query that matches makes no
\* request at all.
C2_UnmatchedGoesToGateway ==
    call.op = "process_query" =>
        IF Hits = {}
        THEN /\ call.invoked = <<>>
             /\ sent = <<[kind |-> "chat", query |-> call.args.query]>>
             /\ gw # "awaiting" =>
                   /\ call.raised = "none"
                   /\ Terminal
                   /\ IF GatewayFailed
                      THEN call.outcome.type = "error"
                      ELSE call.outcome =
                              [type |-> "llm",
                               response |-> reply.choices[1].content]
        ELSE sent = <<>> /\ gw = "idle"

\* a blank query went to the gateway, past a non-empty match list, and the
\* answer came back as the outcome
C2_Witness ==
    /\ call.op = "process_query"
    /\ call.args.query = <<" ">>
    /\ command_patterns # <<>>
    /\ gw = "success"
    /\ call.outcome = [type |-> "llm", response |-> Some("Paris")]

\* C3: when the remote call fails during an unmatched process_query or a
\* function_call_to_llm, the call does not raise: it returns an 'error'
\* outcome whose message is not empty.
C3_GatewayFailureContained ==
    (/\ call.op \in {"process_query", "function_call_to_llm"}
     /\ sent # <<>>
     /\ gw # "awaiting"
     /\ GatewayFailed) =>
        /\ call.raised = "none"
        /\ call.outcome.type = "error"
        /\ Len(call.outcome.response) > 0

\* the service raised an exception whose text is empty, and the call returned
C3_Witness ==
    /\ call.op = "process_query"
    /\ gw = "failure"
    /\ reply = [kind |-> "raise", error |-> <<>>]
    /\ call.outcome.type = "error"

\* C4: when the handler of the first matching entry raises, process_query
\* raises too: no outcome, no later entry tried, no gateway request.
C4_HandlerFailurePropagates ==
    (/\ call.op = "process_query"
     /\ call.invoked # <<>>
     /\ call.invoked[1].returned = None) =>
        /\ call.raised = "handler"
        /\ call.outcome = NoOutcome
        /\ Len(call.invoked) = 1
        /\ call.invoked[1].handler = FirstHit[2]
        /\ sent = <<>>
        /\ gw = "idle"

\* the first of two matching entries raised
C4_Witness ==
    /\ call.op = "process_query"
    /\ Cardinality(Hits) >= 2
    /\ call.raised = "handler"

\* a pattern list register_module is specified to reject
BadPatterns(patterns) ==
    \/ patterns = <<>>
    \/ \E i \in 1..Len(patterns) : ~Compiles(patterns[i])

\* C5: a register_module with an empty pattern list, or with a pattern that
\* does not compile, fails and leaves command_registry as it was.
C5_BadRegistrationRejected ==
    [][(call'.op = "register_module" /\ BadPatterns(call'.args.patterns)) =>
          /\ call'.raised # "none"
          /\ command_registry' = command_registry]_vars

OutcomeFields(type) ==
    CASE type = "command" -> {"type", "handler", "response"}
      [] type \in {"llm", "error"} -> {"type", "response"}
      [] OTHER -> {}

\* C6: a process_query that returns yields one outcome of type 'command',
\* 'llm' or 'error' with exactly that variant's fields, never a
\* 'function_call', and a 'command' only when an entry matched.
C6_OneOutcomeVariant ==
    (call.op = "process_query" /\ Returned) =>
        /\ call.outcome.type \in {"command", "llm", "error"}
        /\ DOMAIN call.outcome = OutcomeFields(call.outcome.type)
        /\ call.outcome.type = "command" => Hits # {}

\* a command outcome was returned
C6_Witness ==
    /\ call.op = "process_query"
    /\ Returned
    /\ call.outcome.type = "command"
    /\ call.outcome.response = "done"

\* the model asked for a function, or answered directly
Requested ==
    /\ reply.kind = "response"
    /\ reply.choices # <<>>
    /\ reply.choices[1].function_call # None
Direct ==
    /\ reply.kind = "response"
    /\ reply.choices # <<>>
    /\ reply.choices[1].function_call = None

\* C7: function_call_to_llm returns a 'function_call' outcome with the
\* requested name and the argument payload as received exactly when the
\* response requests a function, an 'llm' outcome with the message text
\* exactly when the model answers directly, and invokes no handler.
C7_FunctionCallOutcome ==
    call.op = "function_call_to_llm" =>
        /\ call.invoked = <<>>
        /\ gw # "awaiting" =>
              /\ call.raised = "none"
              /\ call.outcome.type = "function_call" <=> Requested
              /\ Requested =>
                    call.outcome =
                       [type |-> "function_call",
                        function |-> reply.choices[1].function_call[1].name,
                        arguments |->
                           reply.choices[1].function_call[1].arguments]
              /\ call.outcome.type = "llm" <=> Direct
              /\ Direct =>
                    call.outcome =
                       [type |-> "llm", response |-> reply.choices[1].content]

\* a function was requested, in a message that also carries text, for a
\* query a registered pattern matches
C7_Witness ==
    /\ call.op = "function_call_to_llm"
    /\ Hits # {}
    /\ gw = "success"
    /\ reply.choices[1].content # None
    /\ call.outcome.type = "function_call"

\* C8: a register_module of a name already in command_registry replaces the
\* entry of that name and leaves every earlier entry of command_patterns in
\* place, ahead of the new ones; a process_query runs the handler bound in
\* the first matching entry, whatever command_registry holds.
C8_StaleEntriesSurvive ==
    /\ [][(/\ call'.op = "register_module"
           /\ call'.args.module_name \in DOMAIN command_registry) =>
             /\ command_registry'[call'.args.module_name].handler
                   = call'.args.handler
             /\ Len(command_patterns') >= Len(command_patterns)
             /\ SubSeq(command_patterns', 1, Len(command_patterns))
                   = command_patterns]_vars
    /\ [](call.op = "process_query" /\ call.invoked # <<>> =>
             call.invoked[1].handler = FirstHit[2])

\* a handler that command_registry no longer holds for any name has run
C8_Witness ==
    /\ call.op = "process_query"
    /\ call.outcome.type = "command"
    /\ DOMAIN command_registry # {}
    /\ call.outcome.handler \notin RegistryHandlers

\* C9: a gateway call goes from idle to awaiting with exactly one request
\* issued, issues no other request while it waits, ends in success or
\* failure with an outcome, and does end once the service has answered.
C9_GatewaySingleAttempt ==
    /\ [][/\ (gw # "awaiting" /\ gw' = "awaiting") =>
                Len(sent') = 1 /\ reply' = NoReply
          /\ gw = "awaiting" =>
                /\ sent' = sent
                /\ gw' \in {"awaiting", "success", "failure"}
          /\ (gw = "awaiting" /\ gw' # "awaiting") =>
                /\ reply # NoReply
                /\ gw' = "failure" <=> GatewayFailed
                /\ call'.outcome # NoOutcome]_vars
    /\ [](gw \in {"awaiting", "success", "failure"} => Len(sent) = 1)
    /\ (gw = "awaiting" /\ reply # NoReply) ~> Terminal

\* a call ended in failure having issued one request
C9_Witness ==
    /\ gw = "failure"
    /\ reply.kind = "raise"
    /\ Len(sent) = 1
    /\ call.op = "function_call_to_llm"

\* C10: process_query and function_call_to_llm leave command_patterns and
\* command_registry unchanged, and a register_module that succeeds keeps the
\* existing entries as a prefix and appends one entry per pattern, in list
\* order, each bound to the handler.
C10_AppendOnly ==
    [][/\ call'.op \in {"process_query", "function_call_to_llm"} =>
             /\ command_patterns' = command_patterns
             /\ command_registry' = command_registry
       /\ (call'.op = "register_module" /\ call'.raised = "none") =>
             /\ Len(command_patterns')
                   = Len(command_patterns) + Len(call'.args.patterns)
             /\ \A i \in 1..Len(command_patterns) :
                   command_patterns'[i] = command_patterns[i]
             /\ \A j \in 1..Len(call'.args.patterns) :
                   command_patterns'[Len(command_patterns) + j]
                      = <<Compile(call'.args.patterns[j]),
                          call'.args.handler>>]_vars

\* a registration appended behind an entry of another handler
C10_Witness ==
    /\ call.op = "register_module"
    /\ call.raised = "none"
    /\ Len(call.args.patterns) >= 1
    /\ Len(command_patterns) > Len(call.args.patterns)
    /\ command_patterns[1][2] # call.args.handler

====
